---------------------------- MODULE Spec2Model ----------------------------
(***************************************************************************)
(* Budget-Buddy: the ExpenseTracker class of script.js as a state machine. *)
(*                                                                         *)
(* State: the in-memory ledger (this.transactions), the text stored under  *)
(* the localStorage key 'transactions', the filter selection, the options  *)
(* of the month <select>, the clock read by Date.now(), and the outcome of *)
(* the last handler that ran (exception thrown, notification shown).       *)
(*                                                                         *)
(* Numbers: amounts are IEEE doubles in the program.  The model keeps a    *)
(* finite amount as an integer number of cents and keeps NaN and the JSON  *)
(* value null apart from the finite numbers, because parseFloat,           *)
(* comparison, addition and JSON.stringify treat them differently.         *)
(***************************************************************************)
EXTENDS Integers, Sequences, FiniteSets, TLC

VARIABLES
    pc,            \* "boot" before DOMContentLoaded, "ready", or "crashed"
    store,         \* localStorage['transactions']
    transactions,  \* this.transactions
    filters,       \* this.filters
    monthOptions,  \* <option>s of #monthFilter after "All Time"
    clock,         \* Date.now()
    tzWest,        \* the host's time zone lies west of UTC
    nextSeq,       \* history: number of transactions created so far
    last           \* history: the last load or mutation handler and its outcome

vars == <<pc, store, transactions, filters, monthOptions, clock, tzWest,
          nextSeq, last>>

---------------------------------------------------------------------------
(* Bounds *)

MaxClock == 1      \* Date.now() takes the values 0..MaxClock
MaxAdds == 2       \* at most MaxAdds transactions are created in a run

---------------------------------------------------------------------------
(* Values the form fields and the selectors can hold *)

TitleInputs == {"", "  ", "Rent"}
AmountInputs == {"", "0", "-5", "0.01", "abc"}
TypeInputs == {"", "income", "expense"}
CategoryInputs == {"", "food", "salary"}
DateInputs == {"", "2024-03-01", "2023-12-31"}

TypeFilterValues == {"all", "income", "expense"}
CategoryFilterValues == {"all", "food", "salary"}

---------------------------------------------------------------------------
(* JavaScript numbers *)

Num(n) == [k |-> "num", v |-> n]
NaN == [k |-> "nan", v |-> 0]
Null == [k |-> "null", v |-> 0]

\* parseFloat of a string, in cents: the longest numeric prefix, NaN if none.
ParseFloat(s) ==
    CASE s = "0" -> Num(0)
      [] s = "-5" -> Num(-500)
      [] s = "0.01" -> Num(1)
      [] OTHER -> NaN

\* parseFloat(t.amount) of a stored amount: the value is first converted to
\* a string; a number reads back as itself, null reads as "null", hence NaN.
ParseFloatValue(x) == IF x.k = "num" THEN x ELSE NaN

\* x <= 0 : false when x is NaN
LeqZero(x) == x.k = "num" /\ x.v <= 0

\* a + b and a - b : NaN when either operand is NaN
Plus(a, b) == IF a.k = "num" /\ b.k = "num" THEN Num(a.v + b.v) ELSE NaN
Minus(a, b) == IF a.k = "num" /\ b.k = "num" THEN Num(a.v - b.v) ELSE NaN

\* String.prototype.trim on the title inputs
Trim(s) == IF s = "  " THEN "" ELSE s

\* !x for a string: only the empty string is falsy
Falsy(s) == s = ""

\* new Date().toISOString(): one string per millisecond of the clock
ToISOString(c) == "T" \o ToString(c)


---------------------------------------------------------------------------
(* Calendar months of the date field *)

\* new Date("YYYY-MM-DD"): a date-only ISO string is midnight UTC of that day
DateParts(d) ==
    CASE d = "2024-03-01" -> <<2024, 3, 1>>
      [] d = "2023-12-31" -> <<2023, 12, 31>>

\* The local calendar month of that instant: west of UTC it is still the
\* evening of the day before, which for the first of a month is the month
\* before.
ToLocalMonth(d, west) ==
    LET p == DateParts(d) IN
    IF west /\ p[3] = 1
    THEN IF p[2] = 1 THEN <<p[1] - 1, 12>> ELSE <<p[1], p[2] - 1>>
    ELSE <<p[1], p[2]>>

MonthNames ==
    <<"January", "February", "March", "April", "May", "June", "July",
      "August", "September", "October", "November", "December">>

\* toLocaleDateString('en-US', {year: 'numeric', month: 'long'}) of (y, m)
MonthLabel(ym) == MonthNames[ym[2]] \o " " \o ToString(ym[1])

\* new Date(t.date).toLocaleDateString('en-US', {year, month: 'long'})
ToLocaleMonth(d, west) == MonthLabel(ToLocalMonth(d, west))

\* new Date(label) for a label such as "March 2024": local midnight of the
\* first of that month, here as a count of months.
LabelTime(l) ==
    LET ym == CHOOSE x \in (2023..2024) \X (1..12) : MonthLabel(x) = l
    IN ym[1] * 12 + ym[2]

\* Array.from(months).sort((a, b) => new Date(b) - new Date(a))
RECURSIVE SortMonths(_)
SortMonths(S) ==
    IF S = {} THEN <<>>
    ELSE LET top == CHOOSE l \in S : \A o \in S : LabelTime(l) >= LabelTime(o)
         IN <<top>> \o SortMonths(S \ {top})

\* populateMonthFilter: the options written after "All Time"
PopulateMonthFilter(txs, west) ==
    SortMonths({ToLocaleMonth(txs[i].date, west) : i \in 1..Len(txs)})

---------------------------------------------------------------------------
(* Persistence *)

\* What localStorage holds under 'transactions': nothing, the empty string,
\* text that is not JSON, or the JSON text of an array of records.
Absent == [kind |-> "absent", arr |-> <<>>]
EmptyText == [kind |-> "empty", arr |-> <<>>]
CorruptText == [kind |-> "corrupt", arr |-> <<>>]

\* JSON.stringify of a number: NaN is written as null
JsonNumber(x) == IF x.k = "num" THEN x ELSE Null

\* JSON.stringify(this.transactions)
Stringify(txs) ==
    [kind |-> "array",
     arr |-> [i \in 1..Len(txs) |-> [txs[i] EXCEPT !.amount = JsonNumber(@)]]]

\* loadTransactions: data ? JSON.parse(data) : [] ; JSON.parse throws on
\* text that is not JSON.
LoadThrows(data) == data.kind = "corrupt"
LoadTransactions(data) == IF data.kind = "array" THEN data.arr ELSE <<>>

---------------------------------------------------------------------------
(* Filtering and calculations *)

\* A faulty variant of getFilteredTransactions: the month selector is
\* applied to the list as well.
GetFilteredTransactionsByMonth(txs, f) ==
    LET Match(t) ==
            LET typeMatch == f.type = "all" \/ t.type = f.type
                categoryMatch == f.category = "all" \/ t.category = f.category
                monthMatch == f.month = "all"
                              \/ ToLocaleMonth(t.date, tzWest) = f.month
            IN typeMatch /\ categoryMatch /\ monthMatch
    IN SelectSeq(txs, Match)

\* getFilteredTransactions
GetFilteredTransactions(txs, f) ==
    LET Match(t) ==
            LET typeMatch == f.type = "all" \/ t.type = f.type
                categoryMatch == f.category = "all" \/ t.category = f.category
            IN typeMatch /\ categoryMatch
    IN SelectSeq(txs, Match)

\* .reduce((sum, t) => sum + parseFloat(t.amount), 0)
RECURSIVE SumAmounts(_)
SumAmounts(txs) ==
    IF txs = <<>> THEN Num(0)
    ELSE Plus(SumAmounts(SubSeq(txs, 1, Len(txs) - 1)),
              ParseFloatValue(txs[Len(txs)].amount))

OfType(txs, ty) == SelectSeq(txs, LAMBDA t : t.type = ty)

\* calculateTotals
CalculateTotals(txs, f) ==
    LET filteredTransactions == GetFilteredTransactions(txs, f)
        income == SumAmounts(OfType(filteredTransactions, "income"))
        expenses == SumAmounts(OfType(filteredTransactions, "expense"))
    IN [income |-> income, expenses |-> expenses,
        balance |-> Minus(income, expenses)]

\* A faulty variant of calculateMonthlyStats: "all" is compared with the
\* month labels like any other value.
CalculateMonthlyStatsNoAll(txs, month, west) ==
    LET filtered ==
            SelectSeq(txs, LAMBDA t : ToLocaleMonth(t.date, west) = month)
        income == SumAmounts(OfType(filtered, "income"))
        expenses == SumAmounts(OfType(filtered, "expense"))
    IN [count |-> Len(filtered), income |-> income, expenses |-> expenses,
        net |-> Minus(income, expenses)]

\* calculateMonthlyStats
CalculateMonthlyStats(txs, month, west) ==
    LET filtered ==
            IF month # "all"
            THEN SelectSeq(txs, LAMBDA t : ToLocaleMonth(t.date, west) = month)
            ELSE txs
        income == SumAmounts(OfType(filtered, "income"))
        expenses == SumAmounts(OfType(filtered, "expense"))
    IN [count |-> Len(filtered), income |-> income, expenses |-> expenses,
        net |-> Minus(income, expenses)]

---------------------------------------------------------------------------
(* The program *)

NoFilters == [type |-> "all", category |-> "all", month |-> "all"]

\* What the last load or mutation did (a submit that fails validation and a
\* delete or clear that is not confirmed return early and leave it alone):
\*   op      "none", "load", "add", "delete" or "clear"
\*   outcome "ok", or the exception that left the handler
\*   note    the message passed to showNotification, "" if none
\*   wrote   localStorage.setItem was called and accepted the write
\*   hit     for delete: some transaction had the id
Outcome(op, outcome, note, wrote, hit) ==
    [op |-> op, outcome |-> outcome, note |-> note, wrote |-> wrote,
     hit |-> hit]

\* The page is loaded with whatever an earlier session or another program
\* left under the key.
Init ==
    /\ pc = "boot"
    /\ store \in {Absent, EmptyText, CorruptText, Stringify(<<>>)}
    /\ transactions = <<>>
    /\ filters = NoFilters
    /\ monthOptions = <<>>
    /\ clock = 0
    /\ tzWest \in BOOLEAN
    /\ nextSeq = 0
    /\ last = Outcome("none", "ok", "", FALSE, FALSE)

\* Time passes between two events.
Tick ==
    /\ clock < MaxClock
    /\ clock' = clock + 1
    /\ UNCHANGED <<pc, store, transactions, filters, monthOptions, tzWest,
                   nextSeq, last>>

\* DOMContentLoaded (first load or a reload of the page): the constructor,
\* then init() with updateUI() and populateMonthFilter().
Construct ==
    /\ IF LoadThrows(store)
       THEN /\ pc' = "crashed"
            /\ transactions' = <<>>
            /\ monthOptions' = <<>>
            /\ last' = Outcome("load", "SyntaxError", "", FALSE, FALSE)
       ELSE /\ pc' = "ready"
            /\ transactions' = LoadTransactions(store)
            /\ monthOptions' = PopulateMonthFilter(transactions', tzWest)
            /\ last' = Outcome("load", "ok", "", FALSE, FALSE)
    /\ filters' = NoFilters
    /\ UNCHANGED <<store, clock, tzWest, nextSeq>>

\* A faulty variant of saveTransactions: the write is wrapped in a
\* try/catch that drops the exception.
SaveSwallows(writeOk) == FALSE

\* saveTransactions does not catch what localStorage.setItem throws.
SaveThrows(writeOk) == ~writeOk

\* The notification a mutation ends with; it follows saveTransactions() and
\* updateUI(), so it is not reached when saveTransactions throws.
Notify(writeOk, message) == IF SaveThrows(writeOk) THEN "" ELSE message

\* saveTransactions(), then the rest of the mutation: the new store and the
\* handler's outcome.
SaveAndFinish(op, txs, writeOk, message, hit) ==
    /\ store' = IF writeOk THEN Stringify(txs) ELSE store
    /\ last' = Outcome(op,
                       IF SaveThrows(writeOk) THEN "StorageError" ELSE "ok",
                       Notify(writeOk, message), writeOk, hit)

\* A faulty variant of the insertion: push instead of unshift.
Push(txs, t) == txs \o <<t>>

\* this.transactions.unshift(newTransaction)
Unshift(txs, t) == <<t>> \o txs

\* id: Date.now().toString()
NewId(c) == ToString(c)

\* addTransaction(transaction); seq is a history field, not the program's.
AddTransaction(transaction, writeOk) ==
    LET newTransaction ==
            [id |-> NewId(clock),
             title |-> transaction.title,
             amount |-> transaction.amount,
             type |-> transaction.type,
             category |-> transaction.category,
             date |-> transaction.date,
             timestamp |-> ToISOString(clock),
             seq |-> nextSeq + 1]
    IN /\ transactions' = Unshift(transactions, newTransaction)
       /\ nextSeq' = nextSeq + 1
       /\ SaveAndFinish("add", transactions', writeOk,
                        "Transaction added successfully!", FALSE)

\* The validation of handleFormSubmit
IsValid(title, amount, type, category, date) ==
    /\ ~Falsy(Trim(title))
    /\ ~(Falsy(amount) \/ LeqZero(ParseFloat(amount)))
    /\ ~Falsy(type)
    /\ ~Falsy(category)
    /\ ~Falsy(date)

\* submit of #transactionForm: handleFormSubmit
HandleFormSubmit(title, amount, type, category, date, writeOk) ==
    /\ pc = "ready"
    /\ nextSeq < MaxAdds
    /\ IF ~IsValid(title, amount, type, category, date)
       THEN UNCHANGED <<store, transactions, nextSeq, last>>
       ELSE AddTransaction([title |-> Trim(title),
                            amount |-> ParseFloat(amount),
                            type |-> type,
                            category |-> category,
                            date |-> date], writeOk)
    /\ UNCHANGED <<pc, filters, monthOptions, clock, tzWest>>

\* A faulty variant of the removal: splice(findIndex(t => t.id === id), 1),
\* which removes one match only, and the last element when there is none.
WithoutIdSplice(txs, id) ==
    LET found == {i \in 1..Len(txs) : txs[i].id = id}
        index == IF found = {} THEN Len(txs)
                 ELSE CHOOSE i \in found : \A j \in found : i <= j
    IN [k \in 1..(IF txs = <<>> THEN 0 ELSE Len(txs) - 1) |->
            IF k < index THEN txs[k] ELSE txs[k + 1]]

\* this.transactions.filter(t => t.id !== id)
WithoutId(txs, id) == SelectSeq(txs, LAMBDA t : t.id # id)

\* deleteTransaction(id)
DeleteTransaction(id, confirmed, writeOk) ==
    /\ pc = "ready"
    /\ LET hit == \E i \in 1..Len(transactions) : transactions[i].id = id
       IN IF confirmed
          THEN /\ transactions' = WithoutId(transactions, id)
               /\ SaveAndFinish("delete", transactions', writeOk,
                                "Transaction deleted!", hit)
          ELSE UNCHANGED <<store, transactions, last>>
    /\ UNCHANGED <<pc, filters, monthOptions, clock, tzWest, nextSeq>>

\* click on #clearAllBtn: clearAllTransactions
ClearAllTransactions(confirmed, writeOk) ==
    /\ pc = "ready"
    /\ IF confirmed
       THEN /\ transactions' = <<>>
            /\ SaveAndFinish("clear", transactions', writeOk,
                             "All transactions cleared!", FALSE)
       ELSE UNCHANGED <<store, transactions, last>>
    /\ UNCHANGED <<pc, filters, monthOptions, clock, tzWest, nextSeq>>

\* change of #typeFilter
TypeFilterChange(value) ==
    /\ pc = "ready"
    /\ filters' = [filters EXCEPT !.type = value]
    /\ UNCHANGED <<pc, store, transactions, monthOptions, clock, tzWest,
                   nextSeq, last>>

\* change of #categoryFilter
CategoryFilterChange(value) ==
    /\ pc = "ready"
    /\ filters' = [filters EXCEPT !.category = value]
    /\ UNCHANGED <<pc, store, transactions, monthOptions, clock, tzWest,
                   nextSeq, last>>

\* change of #monthFilter: the value is "all" or one of the options
MonthFilterChange(value) ==
    /\ pc = "ready"
    /\ filters' = [filters EXCEPT !.month = value]
    /\ UNCHANGED <<pc, store, transactions, monthOptions, clock, tzWest,
                   nextSeq, last>>

Ids == {NewId(c) : c \in 0..MaxClock}

MonthValues == {"all"} \cup {monthOptions[i] : i \in 1..Len(monthOptions)}

ChangeType == \E value \in TypeFilterValues : TypeFilterChange(value)

ChangeCategory == \E value \in CategoryFilterValues : CategoryFilterChange(value)

ChangeMonth == \E value \in MonthValues : MonthFilterChange(value)

---------------------------------------------------------------------------
(* Spec: the ledger and the store.  Every value of the title, amount and   *)
(* date fields, any id, any answer to confirm(), and a store that may      *)
(* refuse any write.  The type and category fields, which no mutation      *)
(* reads, are filled one way, and the filters stay at their defaults.      *)

Submit ==
    \E title \in TitleInputs, amount \in AmountInputs, date \in DateInputs,
       writeOk \in BOOLEAN :
        HandleFormSubmit(title, amount, "expense", "food", date, writeOk)

Delete ==
    \E id \in Ids, confirmed \in BOOLEAN, writeOk \in BOOLEAN :
        DeleteTransaction(id, confirmed, writeOk)

Clear ==
    \E confirmed \in BOOLEAN, writeOk \in BOOLEAN :
        ClearAllTransactions(confirmed, writeOk)

Next ==
    \/ Tick
    \/ Construct
    \/ Submit
    \/ Delete
    \/ Clear

Spec == Init /\ [][Next]_vars

---------------------------------------------------------------------------
(* SpecView: the filtered list.  Every value of the type, category and     *)
(* date fields and of the three filters, over ledgers built by the same    *)
(* handlers within one clock instant, with one amount and a store that     *)
(* accepts every write.                                                    *)

SubmitView ==
    \E type \in TypeInputs, category \in CategoryInputs, date \in DateInputs :
        HandleFormSubmit("Rent", "0.01", type, category, date, TRUE)

DeleteView ==
    \E id \in Ids, confirmed \in BOOLEAN :
        DeleteTransaction(id, confirmed, TRUE)

ClearView == \E confirmed \in BOOLEAN : ClearAllTransactions(confirmed, TRUE)

NextView ==
    \/ Construct
    \/ SubmitView
    \/ DeleteView
    \/ ClearView
    \/ ChangeType
    \/ ChangeCategory
    \/ ChangeMonth

SpecView == Init /\ [][NextView]_vars

---------------------------------------------------------------------------
(* SpecTotals: the sums.  Every value of the amount, type and category     *)
(* fields and of the three filters, over ledgers built by the same         *)
(* handlers within one clock instant, with one date and a store that       *)
(* accepts every write.                                                    *)

SubmitTotals ==
    \E amount \in AmountInputs, type \in TypeInputs,
       category \in CategoryInputs :
        HandleFormSubmit("Rent", amount, type, category, "2024-03-01", TRUE)

NextTotals ==
    \/ Construct
    \/ SubmitTotals
    \/ DeleteView
    \/ ClearView
    \/ ChangeType
    \/ ChangeCategory
    \/ ChangeMonth

SpecTotals == Init /\ [][NextTotals]_vars

---------------------------------------------------------------------------
(* Properties *)

Mutations == {"add", "delete", "clear"}

\* after is the subsequence of before, in order, of the elements that
\* satisfy Keep: its k-th element is the k-th kept element of before.
IsSubsequenceOf(before, after, Keep(_)) ==
    LET kept == {i \in 1..Len(before) : Keep(before[i])}
        Nth(k) == CHOOSE i \in kept : Cardinality({j \in kept : j <= i}) = k
    IN /\ Len(after) = Cardinality(kept)
       /\ \A k \in 1..Len(after) : after[k] = before[Nth(k)]

\* C1: no two transactions of the ledger share an id.
C1_UniqueIds ==
    \A i, j \in 1..Len(transactions) :
        i # j => transactions[i].id # transactions[j].id

\* C2: after every completed mutation the stored text loads to exactly the
\* ledger in memory.
C2_WriteThrough ==
    (last.op \in Mutations /\ last.outcome = "ok")
        => /\ ~LoadThrows(store)
           /\ LoadTransactions(store) = transactions

\* C3: every transaction of the ledger has a non-empty title and a positive
\* finite amount, inputs without them being rejected.
C3_ValidLedger ==
    \A i \in 1..Len(transactions) :
        /\ transactions[i].title # ""
        /\ transactions[i].amount.k = "num"
        /\ transactions[i].amount.v > 0

\* C4: load never fails: startup ends ready, with the empty ledger when the
\* stored value is absent or is not the text of a list of records.
C4_LoadNeverFails ==
    last.op = "load"
        => /\ last.outcome = "ok"
           /\ pc = "ready"
           /\ store.kind # "array" => transactions = <<>>

StatsAgreeWithTotals ==
    LET stats == CalculateMonthlyStats(transactions, "all", tzWest)
        totals == CalculateTotals(transactions, filters)
    IN /\ stats.income = totals.income
       /\ stats.expenses = totals.expenses
       /\ stats.net = totals.balance

StatsCountIsLength ==
    CalculateMonthlyStats(transactions, "all", tzWest).count
        = Len(transactions)

\* C5 as stated: monthlyStats("all") agrees with the totals for every
\* selection of the type and category filters.
C5_AnyFilters ==
    pc = "ready" => StatsCountIsLength /\ StatsAgreeWithTotals

\* C5 as amended: the count of monthlyStats("all") is the length of the
\* ledger for every selection of the filters; its income, expenses and net
\* are the totals' income, expenses and balance when the type and category
\* filters are both "all".
C5_DefaultFilters ==
    pc = "ready"
        => /\ StatsCountIsLength
           /\ (filters.type = "all" /\ filters.category = "all")
                  => StatsAgreeWithTotals

C5_Witness ==
    /\ pc = "ready"
    /\ filters.type = "all" /\ filters.category = "all"
    /\ Len(transactions) = 2
    /\ CalculateTotals(transactions, filters).income = Num(1)
    /\ CalculateTotals(transactions, filters).expenses = Num(1)

\* C6: the ledger is ordered most recent insertion first: a transaction
\* created later precedes every one created earlier, whatever their dates,
\* and right after an add the newest transaction is at the front.
C6_NewestFirst ==
    /\ \A i, j \in 1..Len(transactions) :
           i < j => transactions[i].seq > transactions[j].seq
    /\ last.op = "add"
           => /\ transactions # <<>>
              /\ transactions[1].seq = nextSeq

C6_Witness ==
    /\ Len(transactions) = 2
    /\ transactions[1].date = "2023-12-31"
    /\ transactions[2].date = "2024-03-01"
    /\ last.op = "add"

NoHit(id) == \A i \in 1..Len(transactions) : transactions[i].id # id

DeleteRemovesExactly(id) ==
    /\ IsSubsequenceOf(transactions, transactions', LAMBDA t : t.id # id)
    /\ \A k \in 1..Len(transactions') : transactions'[k].id # id

FilterChange ==
    \/ \E value \in TypeFilterValues : TypeFilterChange(value)
    \/ \E value \in CategoryFilterValues : CategoryFilterChange(value)
    \/ \E value \in MonthValues : MonthFilterChange(value)

\* C8: the filtered list is the subsequence of the ledger, in ledger order,
\* of the transactions that match the type and category filters; the month
\* selector has no effect on it, and a change of a filter leaves the ledger
\* and the store as they were.
C8_FilteredList ==
    /\ [](pc = "ready"
            => IsSubsequenceOf(
                   transactions,
                   GetFilteredTransactions(transactions, filters),
                   LAMBDA t : /\ filters.type \in {"all", t.type}
                              /\ filters.category \in {"all", t.category}))
    /\ [][FilterChange => UNCHANGED <<transactions, store>>]_vars

C8_Witness ==
    /\ pc = "ready"
    /\ filters = [type |-> "expense", category |-> "all",
                  month |-> "March 2024"]
    /\ Len(transactions) = 2
    /\ transactions[1].type = "income"
    /\ transactions[2].type = "expense"
    /\ transactions[2].date = "2023-12-31"
    /\ GetFilteredTransactions(transactions, filters) = <<transactions[2]>>

\* C9: when the store refuses the write of an add, a delete or a clear, the
\* error leaves the mutation and no success notification is emitted.
C9_WriteFailurePropagates ==
    (last.op \in Mutations /\ ~last.wrote)
        => /\ last.outcome = "StorageError"
           /\ last.note = ""

C9_Witness ==
    /\ last.op = "add"
    /\ ~last.wrote
    /\ transactions # <<>>
    /\ store # Stringify(transactions)

\* The calendar months (year, month) of the date fields, most recent first,
\* under the labels of the month selector.
RECURSIVE MonthsDescending(_)
MonthsDescending(S) ==
    IF S = {} THEN <<>>
    ELSE LET top == CHOOSE m \in S :
                        \A o \in S : m[1] * 12 + m[2] >= o[1] * 12 + o[2]
         IN <<MonthLabel(top)>> \o MonthsDescending(S \ {top})

ObservedMonths(txs) ==
    MonthsDescending({<<DateParts(txs[i].date)[1], DateParts(txs[i].date)[2]>> :
                          i \in 1..Len(txs)})

\* C10: the month options are exactly the distinct calendar months of the
\* dates of the transactions now in the ledger, most recent first.
C10_MonthOptions ==
    pc = "ready" => monthOptions = ObservedMonths(transactions)

===========================================================================
